---- MODULE Spec2Model ----
(***************************************************************************)
(* Verification model of the Opponent Framework backend                    *)
(* (src/backend/src/opponent): the retrieval engine (rag/retrieval.py),    *)
(* the similarity index boundary (rag/vectorstore.py) and the three        *)
(* LangGraph pipelines (agents/*.py).                                      *)
(*                                                                         *)
(* Reading of the source.  The text-generation capability (ChatOllama) and *)
(* the similarity index (ChromaDB) are external: a call returns a value    *)
(* chosen nondeterministically or fails.  An "await" is a suspension point *)
(* of the enclosing node, whatever the colour (def / async def) of the     *)
(* enclosing function: the statements of a function are modelled in the    *)
(* order in which they are written.                                        *)
(***************************************************************************)
EXTENDS Integers, Sequences, FiniteSets, TLC

\* ------------------------------------------------------------------ bounds
MaxChunks == 2
MaxIndex == 3
MaxTopK == 2
MaxLimit == 2
MaxPayloadLen == 2
MaxScore == 1
MaxContentLen == 7
MaxChunkSize == 2

\* ------------------------------------------------------------ value domain
Paths == {"a.md", "b.md", "c.md"}

\* A key that the state mapping does not hold, and Python's None.
Missing == "<missing>"
NoneV == "<none>"

Min(a, b) == IF a < b THEN a ELSE b

\* Python truthiness of a str-or-None value read with state.get(key).
Truthy(v) == v \notin {Missing, NoneV, ""}

\* All sequences of n pairwise distinct elements of S.
InjSeqs(S, n) ==
    {s \in [1..n -> S] : \A i, j \in 1..n : i # j => s[i] # s[j]}

\* --------------------------------------------------------- similarity index
\* The collection holds one entry per chunk; its metadata carries the note's
\* path, the chunk's index and the note's tags (here: whether "opponent" is
\* among them).
ChunksOf(counts, tg) ==
    {[path |-> p, chunk_index |-> i, opponent |-> (p \in tg)] :
        p \in {q \in Paths : counts[q] > 0}, i \in 0..(MaxChunks - 1)}

IndexOf(counts, tg) ==
    {c \in ChunksOf(counts, tg) : c.chunk_index < counts[c.path]}

TotalChunks(counts) ==
    counts["a.md"] + counts["b.md"] + counts["c.md"]

Indexes ==
    {IndexOf(counts, tg) :
        counts \in {f \in [Paths -> 0..MaxChunks] : TotalChunks(f) <= MaxIndex},
        tg \in SUBSET Paths}

\* The entries a query may return: all of them, or those whose tags contain
\* "opponent" when filter_metadata is given.
Matching(idx, tagged_only) == {c \in idx : tagged_only => c.opponent}

\* VectorStore.search: the top_k nearest entries in the order the index ranks
\* them.  The ranking is the index's own (embedding distance): any order of any
\* min(top_k, count) distinct entries.  The call may also fail.
\* A formatted result: the entry's document and metadata, and its similarity
\* (1 - distance; results come nearest first, so it decreases with the rank).
Result(c, sim) ==
    [path |-> c.path, chunk_index |-> c.chunk_index, opponent |-> c.opponent,
     similarity_score |-> sim]

search(idx, k, tagged_only) ==
    LET m == Matching(idx, tagged_only)
        n == Min(k, Cardinality(m))
    IN  {[i \in 1..n |-> Result(s[i], n + 1 - i)] : s \in InjSeqs(m, n)}

SearchOutcomes(idx, k, tagged_only) ==
    {[ok |-> TRUE, res |-> s] : s \in search(idx, k, tagged_only)}
        \cup {[ok |-> FALSE, res |-> <<>>]}

\* ------------------------------------------------------------ link retrieval
\* The filter loop of retrieve_for_linking: skip a result whose path was seen
\* (the excluded path is seen from the start), stop at top_k kept results.
RECURSIVE FilterLoop(_, _, _, _)
FilterLoop(results, seen_paths, filtered_results, k) ==
    IF results = <<>> THEN filtered_results
    ELSE LET result == Head(results)
             path == result.path
         IN  IF path \in seen_paths
             THEN FilterLoop(Tail(results), seen_paths, filtered_results, k)
             ELSE LET kept == Append(filtered_results, result)
                  IN  IF Len(kept) >= k THEN kept
                      ELSE FilterLoop(Tail(results), seen_paths \cup {path}, kept, k)

SeenPathsEmpty(exclude_path) == {}

SeenPathsInit(exclude_path) == {exclude_path}

\* retrieve_for_linking, given the outcome of its generation call (the key
\* concepts) and of its index query for top_k * 2 results.
retrieve_for_linking(gen_ok, found, exclude_path, k) ==
    IF ~gen_ok
    THEN [raised |-> TRUE, error |-> "GenerationError", results |-> <<>>,
          llm |-> 1, idx |-> 0]
    ELSE IF ~found.ok
    THEN [raised |-> TRUE, error |-> "IndexError", results |-> <<>>,
          llm |-> 1, idx |-> 1]
    ELSE [raised |-> FALSE, error |-> "",
          results |-> FilterLoop(found.res, SeenPathsInit(exclude_path), <<>>, k),
          llm |-> 1, idx |-> 1]

\* ------------------------------------------------------ opposition retrieval
\* combined_results: a dict keyed by path, filled from opponent_tagged +
\* general_results, keeping the first result of each path; its values() are in
\* insertion order.
HasPath(combined, path) == \E i \in 1..Len(combined) : combined[i].path = path

\* combined_results[path] = result without the membership test: the slot keeps
\* its place and takes the later result.
KeepLastResult(combined, result) ==
    IF HasPath(combined, result.path)
    THEN [i \in 1..Len(combined) |->
            IF combined[i].path = result.path THEN result ELSE combined[i]]
    ELSE Append(combined, result)

KeepResult(combined, result) ==
    IF HasPath(combined, result.path) THEN combined ELSE Append(combined, result)

RECURSIVE CombineLoop(_, _)
CombineLoop(results, combined) ==
    IF results = <<>> THEN combined
    ELSE CombineLoop(Tail(results), KeepResult(combined, Head(results)))

combined_results(opponent_tagged, general_results) ==
    CombineLoop(opponent_tagged \o general_results, <<>>)

\* What the generation capability answers to the rerank prompt:
\*   fail    the call itself fails
\*   text    text that is not JSON
\*   scalar  a JSON number, true, false or null
\*   string  a JSON string (iterating it yields its characters)
\*   array   a JSON array of numbers and strings
IntElems == {[type |-> "int", val |-> n] : n \in 0..MaxScore}
StrElems == {[type |-> "str", val |-> 0]}
Elems == IntElems \cup StrElems

ElemSeqs(E, n) == UNION {[1..m -> E] : m \in 0..n}

Payloads ==
    {[kind |-> k, elems |-> <<>>] : k \in {"fail", "text", "scalar"}}
        \cup {[kind |-> "string", elems |-> e] : e \in ElemSeqs(StrElems, 1)}
        \cup {[kind |-> "array", elems |-> e] : e \in ElemSeqs(Elems, MaxPayloadLen)}

\* zip(results, scores) with 'rerank_score' attached: as long as the shorter.
Scored(result, score) ==
    [path |-> result.path, chunk_index |-> result.chunk_index,
     opponent |-> result.opponent, similarity_score |-> result.similarity_score,
     rerank_score |-> score]

ZipLen(results, scores) == Min(Len(results), Len(scores))

scored_results(results, scores) ==
    [i \in 1..ZipLen(results, scores) |-> Scored(results[i], scores[i])]

\* Python's < on two scores: defined between two numbers or two strings only.
Comparable(x, y) == x.type = y.type
Less(x, y) == x.val < y.val

\* list.sort raises TypeError when it has to compare a number with a string.
SortRaises(scored) ==
    \E i, j \in 1..Len(scored) :
        ~Comparable(scored[i].rerank_score, scored[j].rerank_score)

\* An insertion that puts a result before the results of equal score.
RECURSIVE InsertDescUnstable(_, _)
InsertDescUnstable(sorted, r) ==
    IF sorted = <<>> THEN <<r>>
    ELSE IF ~Less(r.rerank_score, Head(sorted).rerank_score)
         THEN <<r>> \o sorted
         ELSE <<Head(sorted)>> \o InsertDescUnstable(Tail(sorted), r)

\* list.sort(key=rerank_score, reverse=True): descending and stable.
RECURSIVE InsertDesc(_, _)
InsertDesc(sorted, r) ==
    IF sorted = <<>> THEN <<r>>
    ELSE IF Less(Head(sorted).rerank_score, r.rerank_score)
         THEN <<r>> \o sorted
         ELSE <<Head(sorted)>> \o InsertDesc(Tail(sorted), r)

RECURSIVE SortDesc(_, _)
SortDesc(todo, sorted) ==
    IF todo = <<>> THEN sorted
    ELSE SortDesc(Tail(todo), InsertDesc(sorted, Head(todo)))

\* _rerank_results: the generation call is made before the try block; inside
\* it json.loads, zip and sort; only JSONDecodeError and ValueError are caught.
rerank_results(results, payload) ==
    IF payload.kind = "fail"
    THEN [raised |-> TRUE, error |-> "GenerationError", results |-> <<>>]
    ELSE IF payload.kind = "text"
    THEN [raised |-> FALSE, error |-> "", results |-> results]
    ELSE IF payload.kind = "scalar"
    THEN [raised |-> TRUE, error |-> "TypeError", results |-> <<>>]
    ELSE LET scored == scored_results(results, payload.elems)
         IN  IF SortRaises(scored)
             THEN [raised |-> TRUE, error |-> "TypeError", results |-> <<>>]
             ELSE [raised |-> FALSE, error |-> "",
                   results |-> SortDesc(scored, <<>>)]

\* The slice left out.
NoTruncate(results, k) == results

\* results[:k]
Truncate(results, k) == SubSeq(results, 1, Min(k, Len(results)))

\* retrieve_for_opposition, given the outcomes of its two index queries and of
\* the rerank generation call.  `combined` and `reranked` are its locals.
retrieve_for_opposition(tagged, general, payload, k) ==
    IF ~tagged.ok
    THEN [raised |-> TRUE, error |-> "IndexError", results |-> <<>>,
          llm |-> 0, idx |-> 1, combined |-> <<>>, reranked |-> <<>>]
    ELSE IF ~general.ok
    THEN [raised |-> TRUE, error |-> "IndexError", results |-> <<>>,
          llm |-> 0, idx |-> 2, combined |-> <<>>, reranked |-> <<>>]
    ELSE LET combined == combined_results(tagged.res, general.res)
         IN  IF combined # <<>>
             THEN LET reranked == rerank_results(combined, payload)
                  IN  [raised |-> reranked.raised, error |-> reranked.error,
                       results |-> Truncate(reranked.results, k),
                       llm |-> 1, idx |-> 2, combined |-> combined,
                       reranked |-> reranked.results]
             ELSE [raised |-> FALSE, error |-> "", results |-> <<>>,
                   llm |-> 0, idx |-> 2, combined |-> combined,
                   reranked |-> <<>>]

\* ------------------------------------------------------------ tag retrieval
\* The parameters VectorStore.search accepts, and the keywords retrieve_by_tag
\* passes to it ("filder_metadata").
SearchParameters == {"query", "top_k", "filter_metadata"}
TagSearchKeywords == {"query", "top_k", "filder_metadata"}

\* Python binds the keywords before the body of search runs: a keyword that is
\* no parameter raises TypeError.
BindsKeywords(keywords) == keywords \subseteq SearchParameters

\* retrieve_by_tag: k = top_k or self.top_k, one search for k * 2 results, then
\* raise NotImplementedError.  `found` is the outcome of the index query when
\* the call reaches the index.
retrieve_by_tag(tag, top_k_arg, self_top_k, found) ==
    LET k == IF top_k_arg = 0 THEN self_top_k ELSE top_k_arg
    IN  IF ~BindsKeywords(TagSearchKeywords)
        THEN [raised |-> TRUE, error |-> "TypeError", results |-> <<>>,
              llm |-> 0, idx |-> 0]
        ELSE IF ~found.ok
        THEN [raised |-> TRUE, error |-> "IndexError", results |-> <<>>,
              llm |-> 0, idx |-> 1]
        ELSE [raised |-> TRUE, error |-> "NotImplementedError", results |-> <<>>,
              llm |-> 0, idx |-> 1]

\* ------------------------------------------------------------------ chunker
\* A document is a string over two words ("a", "b"), the space and the newline.
Whitespace == {" ", "\n"}
Chars == {"a", "b"} \cup Whitespace
Contents == UNION {[1..n -> Chars] : n \in 0..MaxContentLen}

\* content.split("\n\n"): cut at each blank-line separator, left to right.
RECURSIVE split_blank(_, _, _)
split_blank(s, piece, pieces) ==
    IF s = <<>> THEN Append(pieces, piece)
    ELSE IF Len(s) >= 2 /\ s[1] = "\n" /\ s[2] = "\n"
    THEN split_blank(SubSeq(s, 3, Len(s)), <<>>, Append(pieces, piece))
    ELSE split_blank(Tail(s), Append(piece, Head(s)), pieces)

\* str.strip()
RECURSIVE strip_left(_)
strip_left(s) ==
    IF s # <<>> /\ Head(s) \in Whitespace THEN strip_left(Tail(s)) ELSE s

RECURSIVE strip_right(_)
strip_right(s) ==
    IF s # <<>> /\ s[Len(s)] \in Whitespace
    THEN strip_right(SubSeq(s, 1, Len(s) - 1)) ELSE s

strip(s) == strip_right(strip_left(s))

\* [p.strip() for p in pieces if p.strip()]
RECURSIVE StrippedNonEmpty(_)
StrippedNonEmpty(pieces) ==
    IF pieces = <<>> THEN <<>>
    ELSE IF strip(Head(pieces)) # <<>>
    THEN <<strip(Head(pieces))>> \o StrippedNonEmpty(Tail(pieces))
    ELSE StrippedNonEmpty(Tail(pieces))

paragraphs(content) == StrippedNonEmpty(split_blank(content, <<>>, <<>>))

\* len(paragraph.split()): the number of maximal runs of non-whitespace.
word_count(p) ==
    Cardinality({i \in 1..Len(p) :
        p[i] \notin Whitespace /\ (i = 1 \/ p[i - 1] \in Whitespace)})

\* "\n\n".join(current_chunk)
RECURSIVE join(_)
join(current_chunk) ==
    IF current_chunk = <<>> THEN <<>>
    ELSE IF Len(current_chunk) = 1 THEN current_chunk[1]
    ELSE current_chunk[1] \o <<"\n", "\n">> \o join(Tail(current_chunk))

\* The overflow test with the incoming paragraph left out of the sum.
OverflowsIgnoringParagraph(current_length, paragraph_length, chunk_size, current_chunk) ==
    current_length > chunk_size /\ current_chunk # <<>>

\* current_length + paragraph_length > chunk_size and current_chunk
Overflows(current_length, paragraph_length, chunk_size, current_chunk) ==
    current_length + paragraph_length > chunk_size /\ current_chunk # <<>>

\* The next chunk seeded with nothing.
ReseedEmpty(current_chunk) == <<>>

\* [current_chunk[-1]]: the closed chunk's last paragraph is carried over.
Reseed(current_chunk) == <<current_chunk[Len(current_chunk)]>>

\* The running count restarted at nothing.
ReseedLengthZero(current_chunk) == 0

\* len(current_chunk[0].split()) if current_chunk else 0
ReseedLength(current_chunk) ==
    IF current_chunk # <<>> THEN word_count(current_chunk[1]) ELSE 0

\* The loop's variables.
LoopState(chunks, current_chunk, current_length) ==
    [chunks |-> chunks, current_chunk |-> current_chunk,
     current_length |-> current_length]

\* One iteration of the loop over the paragraphs.
ChunkStep(st, paragraph, chunk_size) ==
    LET paragraph_length == word_count(paragraph)
        closes == Overflows(st.current_length, paragraph_length, chunk_size,
                            st.current_chunk)
        closed == IF closes THEN Append(st.chunks, join(st.current_chunk))
                  ELSE st.chunks
        seed == IF closes THEN Reseed(st.current_chunk) ELSE st.current_chunk
        seed_length == IF closes THEN ReseedLength(seed) ELSE st.current_length
    IN  LoopState(closed, Append(seed, paragraph), seed_length + paragraph_length)

\* The loop over the paragraphs and the final append.
RECURSIVE ChunkLoop(_, _, _, _, _)
ChunkLoop(todo, chunks, current_chunk, current_length, chunk_size) ==
    IF todo = <<>>
    THEN IF current_chunk # <<>> THEN Append(chunks, join(current_chunk))
         ELSE chunks
    ELSE LET st == ChunkStep(LoopState(chunks, current_chunk, current_length),
                             Head(todo), chunk_size)
         IN  ChunkLoop(Tail(todo), st.chunks, st.current_chunk,
                       st.current_length, chunk_size)

\* VectorStore._chunk_document (its overlap parameter is not used).
chunk_document(content, chunk_size) ==
    LET chunks == ChunkLoop(paragraphs(content), <<>>, <<>>, 0, chunk_size)
    IN  IF chunks # <<>> THEN chunks ELSE <<content>>

\* ------------------------------------------------------------------- state
VARIABLES
    pipeline,       \* which compiled graph this run executes
    initial_state,  \* the state mapping the caller passed to ainvoke
    state,          \* the run's state mapping (key -> value)
    scheduled,      \* nodes of the current superstep that have not started
    running,        \* nodes started and suspended at an await
    finished,       \* nodes of the current superstep that returned
    step_writes,    \* the updates returned in the current superstep
    status,         \* "running", "done" (END reached) or "error"
    error,          \* the exception the run ended with
    raised_node,    \* the node that raised it
    call_failed,    \* a generation or index call of this run has failed
    invoked,        \* the nodes started so far, in order
    returned,       \* the nodes that returned so far, in order
    llm_calls,      \* generation calls made by returned or raising nodes
    index_calls,    \* index queries made by returned or raising nodes
    index,          \* the similarity index (shared, read-only for a run)
    top_k,          \* Retriever.top_k (settings.top_k_results)
    r_mode,         \* last direct retrieval call: "idle", "linking", "opposition"
    r_exclude,      \*   its exclude_path
    r_tagged,       \*   outcome of the tag-filtered query
    r_general,      \*   outcome of the general query
    r_payload,      \*   answer to the rerank prompt
    r_combined,     \*   combined_results.values() before reranking
    r_reranked,     \*   the list _rerank_results returned
    r_out,          \*   outcome of the retrieval call
    c_mode,         \* chunker called directly: "idle" or "chunked"
    c_content,      \*   the document
    c_size,         \*   chunk_size
    c_chunks,       \*   the chunks returned
    runs,           \* concurrent runs of one compiled graph: run id -> run
    records,        \*   the state records of those runs
    collection,     \* VectorStore.collection: the stored chunks, keyed by id
    v_mode,         \* index_vault called directly: "idle" or "indexed"
    v_vault,        \*   the vault directory it was given
    v_added,        \*   the entries it passed to collection.add
    v_out,          \*   outcome of the call
    u_calls,        \* update_document calls in progress: caller -> call
    s_seen          \* what the searches made during the updates returned

engine_vars == <<pipeline, initial_state, state, scheduled, running, finished,
                 step_writes, status, error, raised_node, call_failed, invoked,
                 returned, llm_calls, index_calls>>
retrieval_vars == <<r_mode, r_exclude, r_tagged, r_general, r_payload,
                    r_combined, r_reranked, r_out>>
chunker_vars == <<c_mode, c_content, c_size, c_chunks>>
concurrent_vars == <<runs, records>>
store_vars == <<collection, v_mode, v_vault, v_added, v_out, u_calls, s_seen>>
vars == <<engine_vars, index, top_k, retrieval_vars, chunker_vars,
          concurrent_vars, store_vars>>

\* Optional list fields: key absent, None, or a list.
MissingL == [tag |-> "missing", v |-> <<>>]
NoneL == [tag |-> "none", v |-> <<>>]
ListOf(s) == [tag |-> "list", v |-> s]

\* `x or []` on an optional list.
OrEmpty(l) == IF l.tag = "list" THEN l.v ELSE <<>>

END == "__end__"

NoSearch == [ok |-> TRUE, res |-> <<>>]
NoPayload == [kind |-> "text", elems |-> <<>>]
NoOutcome == [raised |-> FALSE, error |-> "", results |-> <<>>, llm |-> 0, idx |-> 0]

\* ------------------------------------------------------------------ graphs
\* The graphs as the three __init__ methods wire them.
\* merge_metadata wired from generate_note instead of generate_topic_tags.
NomaEdgesMergeFromNote ==
    {<<"validate_responses", "generate_note">>,
     <<"generate_note", "generate_title">>,
     <<"generate_note", "generate_topic_tags">>,
     <<"generate_title", "merge_metadata">>,
     <<"generate_note", "merge_metadata">>,
     <<"fetch_resources", "format_output">>,
     <<"format_output", END>>}

\* generate_topic_tags wired after merge_metadata instead of beside generate_title.
NomaEdgesTagsAfterMerge ==
    {<<"validate_responses", "generate_note">>,
     <<"generate_note", "generate_title">>,
     <<"generate_title", "merge_metadata">>,
     <<"merge_metadata", "generate_topic_tags">>,
     <<"fetch_resources", "format_output">>,
     <<"format_output", END>>}

NomaEdges ==
    {<<"validate_responses", "generate_note">>,
     <<"generate_note", "generate_title">>,
     <<"generate_note", "generate_topic_tags">>,
     <<"generate_title", "merge_metadata">>,
     <<"generate_topic_tags", "merge_metadata">>,
     <<"fetch_resources", "format_output">>,
     <<"format_output", END>>}

\* format_suggestions wired to a node that was never added to the graph.
LinkEdgesDangling ==
    {<<"validate_input", "find_links">>,
     <<"find_links", "format_suggestions">>,
     <<"format_suggestions", "review_suggestions">>}

LinkEdges ==
    {<<"validate_input", "find_links">>,
     <<"find_links", "format_suggestions">>,
     <<"format_suggestions", END>>}

\* analyze_arguments and summarize_opposition wired in the opposite order.
OpponentEdgesSwapped ==
    {<<"validate_input", "retrieve_counter_evidence">>,
     <<"retrieve_counter_evidence", "summarize_opposition">>,
     <<"summarize_opposition", "analyze_arguments">>,
     <<"analyze_arguments", END>>}

OpponentEdges ==
    {<<"validate_input", "retrieve_counter_evidence">>,
     <<"retrieve_counter_evidence", "analyze_arguments">>,
     <<"analyze_arguments", "summarize_opposition">>,
     <<"summarize_opposition", END>>}

Edges(p) ==
    IF p = "noma" THEN NomaEdges
    ELSE IF p = "link" THEN LinkEdges ELSE OpponentEdges

EntryPoint(p) == IF p = "noma" THEN "validate_responses" ELSE "validate_input"

should_fetch_always(s) == "fetch_resources"

\* should_fetch_resources: state.get("has_internet", False).
should_fetch_resources(s) ==
    IF s["has_internet"] = "True" THEN "fetch_resources" ELSE "format_output"

\* The conditional edges: source node and routing function.
Routes(p, n, s) ==
    IF p = "noma" /\ n = "merge_metadata" THEN {should_fetch_resources(s)} ELSE {}

\* ------------------------------------------------------------------- nodes
\* A node's outcome: it raised, or the update it returned, and the capability
\* calls it made.  `c` holds what the external capabilities answered.
Returned(w, nllm, nidx) ==
    [raised |-> FALSE, error |-> "", writes |-> w, llm |-> nllm, idx |-> nidx,
     failed |-> FALSE]
Raised(e, nllm, nidx, call) ==
    [raised |-> TRUE, error |-> e, writes |-> <<>>, llm |-> nllm, idx |-> nidx,
     failed |-> call]

ReflectionFields ==
    {"interesting", "reminds_me", "similar_because", "different_because",
     "important_because"}

\* validate_responses
required_fields_missing(s) == \E f \in ReflectionFields : ~Truthy(s[f])

validate_responses(s) ==
    IF required_fields_missing(s)
    THEN Raised("ValueError", 0, 0, FALSE)
    ELSE Returned(s, 0, 0)

\* generate_note with the failure of the call swallowed.
generate_note_swallow(s, c) ==
    IF ~c.gen_ok
    THEN [Returned([synthesized_note |-> NoneV], 1, 0) EXCEPT !.failed = TRUE]
    ELSE Returned([synthesized_note |-> "note"], 1, 0)

\* generate_note
generate_note(s, c) ==
    IF ~c.gen_ok THEN Raised("GenerationError", 1, 0, TRUE)
    ELSE Returned([synthesized_note |-> "note"], 1, 0)

\* generate_title
generate_title(s, c) ==
    IF ~c.gen_ok THEN Raised("GenerationError", 1, 0, TRUE)
    ELSE Returned([note_title |-> "Title"], 1, 0)

\* str.lstrip('#t/'): drops every leading character that is one of '#', 't', '/'.
LStripChars == {"#", "t", "/"}

RECURSIVE lstrip(_)
lstrip(tag) ==
    IF tag # <<>> /\ Head(tag) \in LStripChars THEN lstrip(Tail(tag)) ELSE tag

\* Tags the model may return (each a sequence of characters).
GeneratedTags ==
    {<<"#", "t", "/", "a", "i">>, <<"#", "t", "/", "t", "e", "c", "h">>,
     <<"w", "o", "r", "k">>}

\* generate_topic_tags
generate_topic_tags(s, c) ==
    IF ~c.gen_ok THEN Raised("GenerationError", 1, 0, TRUE)
    ELSE Returned([topic_tags |->
                     ListOf([i \in 1..Len(c.tags) |-> lstrip(c.tags[i])])], 1, 0)

\* merge_metadata
merge_metadata(s) ==
    IF s["resources"].tag = "missing"
    THEN Returned([s EXCEPT !["resources"] = NoneL], 0, 0)
    ELSE Returned(s, 0, 0)

\* fetch_resources: the structured call returns one Resource; iterating a
\* Resource yields (field, value) tuples, and `res.title` on a tuple raises.
fetch_resources(s, c) ==
    IF s["has_internet"] # "True"
    THEN Returned([s EXCEPT !["resources"] = NoneL], 0, 0)
    ELSE IF ~c.gen_ok THEN Raised("GenerationError", 1, 0, TRUE)
    ELSE Raised("AttributeError", 1, 0, FALSE)

\* format_final_output
format_final_output(s) ==
    IF s["resources"].tag = "missing" \/ s["note_title"] = Missing
       \/ s["topic_tags"].tag = "missing" \/ s["synthesized_note"] = Missing
    THEN Raised("KeyError", 0, 0, FALSE)
    ELSE Returned([s EXCEPT !["output_file_name"] = "title.md",
                            !["final_output"] = "markdown"], 0, 0)

link_input_missing_path_only(s) == ~Truthy(s["note_path"])

\* NoteLinker.validate_input
link_input_missing(s) == ~Truthy(s["note_path"]) \/ ~Truthy(s["note_content"])

link_validate_input(s, default_max) ==
    IF link_input_missing(s)
    THEN Raised("ValueError", 0, 0, FALSE)
    ELSE IF s["max_links"] = 0
    THEN Returned([s EXCEPT !["max_links"] = default_max], 0, 0)
    ELSE Returned(s, 0, 0)

\* One suggested link: result.get("snippet", "") and result.get("score", 0.0)
\* read keys that search does not set.
SuggestedLink(result) ==
    [path |-> result.path, title |-> result.path, reason |-> "", score |-> 0]

\* find_links
find_links(s, c, k) ==
    LET out == retrieve_for_linking(c.gen_ok, c.general, s["note_path"], k)
        shown == Truncate(out.results, s["max_links"])
    IN  IF out.raised THEN Raised(out.error, out.llm, out.idx, TRUE)
        ELSE Returned([s EXCEPT !["suggested_links"] =
                          ListOf([i \in 1..Len(shown) |-> SuggestedLink(shown[i])])],
                      out.llm, out.idx)

\* format_suggestions
format_suggestions(s) ==
    IF OrEmpty(s["suggested_links"]) = <<>>
    THEN Returned([s EXCEPT !["link_summary"] = "No related notes found for linking."],
                  0, 0)
    ELSE Returned([s EXCEPT !["link_summary"] = "Found related note(s) for linking:"],
                  0, 0)

\* OpponentAgent.validate_input
opponent_input_missing(s) == ~Truthy(s["note_content"])

opponent_validate_input(s, default_max) ==
    IF opponent_input_missing(s)
    THEN Raised("ValueError", 0, 0, FALSE)
    ELSE IF s["max_evidence"] = 0
    THEN Returned([s EXCEPT !["max_evidence"] = default_max], 0, 0)
    ELSE Returned(s, 0, 0)

\* One piece of counter-evidence: result.get("rerank_score", result.get("score", 0.0)).
DefaultScore == [type |-> "float", val |-> 0]

EvidenceScore(result) ==
    IF "rerank_score" \in DOMAIN result THEN result.rerank_score ELSE DefaultScore

CounterEvidence(result) ==
    [content |-> <<result.path, result.chunk_index>>, source |-> result.path,
     path |-> result.path, score |-> EvidenceScore(result)]

\* retrieve_counter_evidence without the [:max_evidence] slice.
retrieve_counter_evidence_uncapped(s, c, k) ==
    LET out == retrieve_for_opposition(c.tagged, c.general, c.payload, k)
    IN  IF out.raised
        THEN Raised(out.error, out.llm, out.idx, out.error # "TypeError")
        ELSE Returned([s EXCEPT !["counter_evidence"] =
                          ListOf([i \in 1..Len(out.results) |->
                                    CounterEvidence(out.results[i])])],
                      out.llm, out.idx)

\* retrieve_counter_evidence
retrieve_counter_evidence(s, c, k) ==
    LET out == retrieve_for_opposition(c.tagged, c.general, c.payload, k)
        used == Truncate(out.results, s["max_evidence"])
    IN  IF out.raised
        THEN Raised(out.error, out.llm, out.idx, out.error # "TypeError")
        ELSE Returned([s EXCEPT !["counter_evidence"] =
                          ListOf([i \in 1..Len(used) |-> CounterEvidence(used[i])])],
                      out.llm, out.idx)

NoEvidenceMessage ==
    "No counter-evidence found in your knowledge base. The claim may be novel, or your vault lacks opposing perspectives."

\* analyze_arguments without the no-evidence branch.
analyze_arguments_always_generates(s, c) ==
    IF ~c.gen_ok THEN Raised("GenerationError", 1, 0, TRUE)
    ELSE Returned([s EXCEPT !["detailed_analysis"] = c.text], 1, 0)

\* analyze_arguments
analyze_arguments(s, c) ==
    IF OrEmpty(s["counter_evidence"]) = <<>>
    THEN Returned([s EXCEPT !["detailed_analysis"] = NoEvidenceMessage], 0, 0)
    ELSE IF ~c.gen_ok THEN Raised("GenerationError", 1, 0, TRUE)
    ELSE Returned([s EXCEPT !["detailed_analysis"] = c.text], 1, 0)

\* summarize_opposition
summarize_opposition(s, c) ==
    IF ~Truthy(s["detailed_analysis"])
    THEN Returned([s EXCEPT !["summary"] = "No analysis available"], 0, 0)
    ELSE IF ~c.gen_ok THEN Raised("GenerationError", 1, 0, TRUE)
    ELSE Returned([s EXCEPT !["summary"] = c.text], 1, 0)

\* ------------------------------------------------------------------ engine
\* What the external capabilities answer to the calls of one node execution.
MaxTags == 1

TagLists == UNION {[1..m -> GeneratedTags] : m \in 1..MaxTags}

NoChoice ==
    [gen_ok |-> TRUE, text |-> "", tags |-> <<>>, tagged |-> NoSearch,
     general |-> NoSearch, payload |-> NoPayload]

GenChoices == {[NoChoice EXCEPT !.gen_ok = g] : g \in BOOLEAN}

TextChoices ==
    {[NoChoice EXCEPT !.gen_ok = FALSE]}
        \cup {[NoChoice EXCEPT !.text = t] : t \in {"", "analysis"}}

Choices(p, n, idx, k) ==
    IF n \in {"generate_note", "generate_title", "fetch_resources"}
    THEN GenChoices
    ELSE IF n = "generate_topic_tags"
    THEN {[NoChoice EXCEPT !.gen_ok = FALSE]}
            \cup {[NoChoice EXCEPT !.tags = t] : t \in TagLists}
    ELSE IF n = "find_links"
    THEN {[NoChoice EXCEPT !.gen_ok = FALSE]}
            \cup {[NoChoice EXCEPT !.general = o] :
                    o \in SearchOutcomes(idx, k * 2, FALSE)}
    ELSE IF n = "retrieve_counter_evidence"
    THEN {[NoChoice EXCEPT !.tagged = a, !.general = b, !.payload = pl] :
            a \in SearchOutcomes(idx, k, TRUE),
            b \in SearchOutcomes(idx, k, FALSE),
            pl \in Payloads}
    ELSE IF n \in {"analyze_arguments", "summarize_opposition"}
    THEN TextChoices
    ELSE {NoChoice}

\* The node registered under name n in graph p.  The agents are built with
\* max_links = max_evidence = top_k (main.py).
NodeOutcome(p, n, s, c, k) ==
    CASE n = "validate_responses" -> validate_responses(s)
      [] n = "generate_note" -> generate_note(s, c)
      [] n = "generate_title" -> generate_title(s, c)
      [] n = "generate_topic_tags" -> generate_topic_tags(s, c)
      [] n = "merge_metadata" -> merge_metadata(s)
      [] n = "fetch_resources" -> fetch_resources(s, c)
      [] n = "format_output" -> format_final_output(s)
      [] n = "validate_input" /\ p = "link" -> link_validate_input(s, k)
      [] n = "find_links" -> find_links(s, c, k)
      [] n = "format_suggestions" -> format_suggestions(s)
      [] n = "validate_input" /\ p = "opponent" -> opponent_validate_input(s, k)
      [] n = "retrieve_counter_evidence" -> retrieve_counter_evidence(s, c, k)
      [] n = "analyze_arguments" -> analyze_arguments(s, c)
      [] n = "summarize_opposition" -> summarize_opposition(s, c)

AllNodes ==
    {"validate_responses", "generate_note", "generate_title",
     "generate_topic_tags", "merge_metadata", "fetch_resources", "format_output",
     "validate_input", "find_links", "format_suggestions",
     "retrieve_counter_evidence", "analyze_arguments", "summarize_opposition"}

\* The state after the updates of one superstep.
Apply(s, w) == [key \in DOMAIN s |-> IF key \in DOMAIN w THEN w[key] ELSE s[key]]

RECURSIVE ApplyAll(_, _)
ApplyAll(s, ws) == IF ws = <<>> THEN s ELSE ApplyAll(Apply(s, Head(ws)), Tail(ws))

\* The nodes the next superstep runs: the targets of the plain edges and of the
\* conditional edges of the nodes that returned in this one.
Successors(p, fin, s) ==
    {e[2] : e \in {d \in Edges(p) : d[1] \in fin}}
        \cup UNION {Routes(p, n, s) : n \in fin}

\* A scheduled node starts: it runs up to its first await.
StartNode(n) ==
    /\ status = "running"
    /\ n \in scheduled
    /\ scheduled' = scheduled \ {n}
    /\ running' = running \cup {n}
    /\ invoked' = Append(invoked, n)
    /\ UNCHANGED <<pipeline, initial_state, state, finished, step_writes, status,
                   error, raised_node, call_failed, returned, llm_calls,
                   index_calls, index, top_k, retrieval_vars, chunker_vars,
                   concurrent_vars, store_vars>>

\* A running node returns or raises.  A raise ends the run (the other tasks of
\* the superstep are cancelled); the last return of a superstep applies the
\* step's updates and schedules the successors.
FinishNode(n) ==
    /\ status = "running"
    /\ n \in running
    /\ \E c \in Choices(pipeline, n, index, top_k) :
        LET out == NodeOutcome(pipeline, n, state, c, top_k)
            fin == finished \cup {n}
            ws == Append(step_writes, out.writes)
            s2 == ApplyAll(state, ws)
            next == Successors(pipeline, fin, s2) \ {END}
        IN  /\ llm_calls' = llm_calls + out.llm
            /\ index_calls' = index_calls + out.idx
            /\ call_failed' = (call_failed \/ out.failed)
            /\ returned' = IF out.raised THEN returned ELSE Append(returned, n)
            /\ IF out.raised
               THEN /\ status' = "error"
                    /\ error' = out.error
                    /\ raised_node' = n
                    /\ running' = {}
                    /\ scheduled' = {}
                    /\ UNCHANGED <<state, finished, step_writes>>
               ELSE IF scheduled = {} /\ running = {n}
               THEN /\ state' = s2
                    /\ scheduled' = next
                    /\ running' = {}
                    /\ finished' = {}
                    /\ step_writes' = <<>>
                    /\ status' = IF next = {} THEN "done" ELSE "running"
                    /\ UNCHANGED <<error, raised_node>>
               ELSE /\ finished' = fin
                    /\ step_writes' = ws
                    /\ running' = running \ {n}
                    /\ UNCHANGED <<state, scheduled, status, error, raised_node>>
    /\ UNCHANGED <<pipeline, initial_state, invoked, index, top_k, retrieval_vars,
                   chunker_vars, concurrent_vars, store_vars>>

\* ------------------------------------------------------------ initial states
\* create_note / the demo script: app.ainvoke(state) with the five reflections
\* and has_internet; the output keys are not passed (resources may be None).
NomaInputs ==
    {[interesting |-> r["interesting"], reminds_me |-> r["reminds_me"],
      similar_because |-> r["similar_because"],
      different_because |-> r["different_because"],
      important_because |-> r["important_because"],
      has_internet |-> hi, synthesized_note |-> Missing, note_title |-> Missing,
      topic_tags |-> MissingL, resources |-> res, final_output |-> Missing,
      output_file_name |-> Missing] :
        r \in [ReflectionFields -> {Missing, "", "text"}],
        hi \in {Missing, "False", "True"},
        res \in {MissingL, NoneL}}

\* NoteLinker.run: max_links 0 stands for None (or 0): `max_links or self.max_links`.
LinkRun(note_path, note_content, max_links, self_max_links) ==
    [note_path |-> note_path, note_content |-> note_content,
     max_links |-> IF max_links = 0 THEN self_max_links ELSE max_links,
     suggested_links |-> NoneL, link_summary |-> NoneV]

\* OpponentAgent.run
OpponentRun(note_content, note_path, max_evidence, self_max_evidence) ==
    [note_content |-> note_content, note_path |-> note_path, context |-> NoneV,
     max_evidence |-> IF max_evidence = 0 THEN self_max_evidence ELSE max_evidence,
     counter_evidence |-> NoneL, detailed_analysis |-> NoneV, summary |-> NoneV]

InitEngine(p, s) ==
    /\ pipeline = p
    /\ initial_state = s
    /\ state = s
    /\ scheduled = {EntryPoint(p)}
    /\ running = {}
    /\ finished = {}
    /\ step_writes = <<>>
    /\ status = "running"
    /\ error = ""
    /\ raised_node = ""
    /\ call_failed = FALSE
    /\ invoked = <<>>
    /\ returned = <<>>
    /\ llm_calls = 0
    /\ index_calls = 0

InitRetrievalIdle ==
    /\ r_mode = "idle"
    /\ r_exclude = NoneV
    /\ r_tagged = NoSearch
    /\ r_general = NoSearch
    /\ r_payload = NoPayload
    /\ r_combined = <<>>
    /\ r_reranked = <<>>
    /\ r_out = NoOutcome

InitChunkerIdle ==
    /\ c_mode = "idle"
    /\ c_content = <<>>
    /\ c_size = 1
    /\ c_chunks = <<>>

InitConcurrentIdle ==
    /\ runs = <<>>
    /\ records = <<>>

InitStoreIdle ==
    /\ collection = <<>>
    /\ v_mode = "idle"
    /\ v_vault = [is_dir |-> FALSE, markdown_files |-> <<>>]
    /\ v_added = <<>>
    /\ v_out = [raised |-> FALSE, error |-> "", stats |-> <<>>]
    /\ u_calls = <<>>
    /\ s_seen = <<>>

InitNoma ==
    /\ \E s \in NomaInputs : InitEngine("noma", s)
    /\ index = {}
    /\ top_k = 1

InitLink ==
    /\ index \in Indexes
    /\ top_k \in 1..MaxTopK
    /\ \E np \in {NoneV, "", "a.md"}, nc \in {NoneV, "", "text"}, ml \in 0..MaxLimit :
          InitEngine("link", LinkRun(np, nc, ml, top_k))

InitOpponent ==
    /\ index \in Indexes
    /\ top_k \in 1..MaxTopK
    /\ \E nc \in {NoneV, "", "text"}, np \in {NoneV, "a.md"}, me \in 0..MaxLimit :
          InitEngine("opponent", OpponentRun(nc, np, me, top_k))

Init == (InitNoma \/ InitLink \/ InitOpponent) /\ InitRetrievalIdle /\ InitChunkerIdle
    /\ InitConcurrentIdle
    /\ InitStoreIdle

Next == \E n \in AllNodes : StartNode(n) \/ FinishNode(n)

Spec == Init /\ [][Next]_vars

\* Runs in which every started node eventually returns or raises (every
\* external call eventually returns or fails) and the engine eventually starts
\* every node it scheduled: some step is taken as long as one is possible.
SpecRunsToEnd == Init /\ [][Next]_vars /\ WF_vars(Next)

\* The note-synthesis pipeline alone (the runs of NomaNoteCreator.app).
InitSynthesis == InitNoma /\ InitRetrievalIdle /\ InitChunkerIdle
    /\ InitConcurrentIdle
    /\ InitStoreIdle

SpecSynthesis == InitSynthesis /\ [][Next]_vars

\* ------------------------------------------------- retrieval called directly
\* The Retriever's two implemented modes applied to drawn inputs: an index, a
\* top_k, an exclude_path and the answers of the external capabilities.
InitRetrieval ==
    /\ pipeline = "none"
    /\ initial_state = <<>>
    /\ state = <<>>
    /\ scheduled = {}
    /\ running = {}
    /\ finished = {}
    /\ step_writes = <<>>
    /\ status = "idle"
    /\ error = ""
    /\ raised_node = ""
    /\ call_failed = FALSE
    /\ invoked = <<>>
    /\ returned = <<>>
    /\ llm_calls = 0
    /\ index_calls = 0
    /\ index \in Indexes
    /\ top_k \in 1..MaxTopK
    /\ InitRetrievalIdle
    /\ InitChunkerIdle
    /\ InitConcurrentIdle
    /\ InitStoreIdle

CallRetrieveForLinking ==
    /\ status = "idle"
    /\ r_mode = "idle"
    /\ \E exclude_path \in Paths, gen_ok \in BOOLEAN,
          found \in SearchOutcomes(index, top_k * 2, FALSE) :
        /\ r_mode' = "linking"
        /\ r_exclude' = exclude_path
        /\ r_general' = IF gen_ok THEN found ELSE NoSearch
        /\ r_out' = retrieve_for_linking(gen_ok, found, exclude_path, top_k)
    /\ r_tagged' = NoSearch
    /\ r_payload' = NoPayload
    /\ r_combined' = <<>>
    /\ r_reranked' = <<>>
    /\ UNCHANGED <<engine_vars, index, top_k, chunker_vars, concurrent_vars, store_vars>>

CallRetrieveForOpposition ==
    /\ status = "idle"
    /\ r_mode = "idle"
    /\ \E tagged \in SearchOutcomes(index, top_k, TRUE),
          general \in SearchOutcomes(index, top_k, FALSE),
          payload \in Payloads :
        LET out == retrieve_for_opposition(tagged, general, payload, top_k)
        IN  /\ r_mode' = "opposition"
            /\ r_tagged' = tagged
            /\ r_general' = general
            /\ r_payload' = payload
            /\ r_combined' = out.combined
            /\ r_reranked' = out.reranked
            /\ r_out' = out
    /\ r_exclude' = NoneV
    /\ UNCHANGED <<engine_vars, index, top_k, chunker_vars, concurrent_vars, store_vars>>

\* retrieve_by_tag called with a tag and an optional top_k (0 stands for None).
CallRetrieveByTag ==
    /\ status = "idle"
    /\ r_mode = "idle"
    /\ \E tag \in {"opponent", "idea"}, top_k_arg \in 0..MaxLimit :
        \E found \in SearchOutcomes(index,
                        2 * (IF top_k_arg = 0 THEN top_k ELSE top_k_arg), FALSE) :
            /\ r_mode' = "by_tag"
            /\ r_out' = retrieve_by_tag(tag, top_k_arg, top_k, found)
    /\ r_exclude' = NoneV
    /\ r_tagged' = NoSearch
    /\ r_general' = NoSearch
    /\ r_payload' = NoPayload
    /\ r_combined' = <<>>
    /\ r_reranked' = <<>>
    /\ UNCHANGED <<engine_vars, index, top_k, chunker_vars, concurrent_vars, store_vars>>

NextRetrieval ==
    CallRetrieveForLinking \/ CallRetrieveForOpposition \/ CallRetrieveByTag

SpecRetrieval == InitRetrieval /\ [][NextRetrieval]_vars

\* --------------------------------------------------- chunker called directly
\* No run and no retrieval call is in progress.
InitEngineIdle ==
    /\ pipeline = "none"
    /\ initial_state = <<>>
    /\ state = <<>>
    /\ scheduled = {}
    /\ running = {}
    /\ finished = {}
    /\ step_writes = <<>>
    /\ status = "idle"
    /\ error = ""
    /\ raised_node = ""
    /\ call_failed = FALSE
    /\ invoked = <<>>
    /\ returned = <<>>
    /\ llm_calls = 0
    /\ index_calls = 0

\* _chunk_document applied to a drawn document and chunk_size.
InitChunker ==
    /\ InitEngineIdle
    /\ InitRetrievalIdle
    /\ index = {}
    /\ top_k = 1
    /\ c_mode = "idle"
    /\ c_content \in Contents
    /\ c_size \in 1..MaxChunkSize
    /\ c_chunks = <<>>
    /\ InitConcurrentIdle
    /\ InitStoreIdle

ChunkDocument ==
    /\ c_mode = "idle"
    /\ status = "idle"
    /\ c_mode' = "chunked"
    /\ c_chunks' = chunk_document(c_content, c_size)
    /\ UNCHANGED <<engine_vars, index, top_k, retrieval_vars, c_content, c_size,
                   concurrent_vars, store_vars>>

NextChunker == ChunkDocument

SpecChunker == InitChunker /\ [][NextChunker]_vars

\* ------------------------------------- two requests on one compiled pipeline
\* Two create_note requests are served by the same NomaNoteCreator instance;
\* each builds its own state mapping and awaits app.ainvoke on it.
RunIds == {1, 2}

\* Both requests working on the record of the first.
SharedRecord(r) == 1

\* The state record a request's run works on: the mapping built in that request.
RunRecord(r) == r

\* What request r sends: its five reflections and has_internet.
RequestState(text, has_internet) ==
    [interesting |-> text, reminds_me |-> text, similar_because |-> text,
     different_because |-> text, important_because |-> text,
     has_internet |-> has_internet, synthesized_note |-> Missing,
     note_title |-> Missing, topic_tags |-> MissingL, resources |-> MissingL,
     final_output |-> Missing, output_file_name |-> Missing]

\* A run at the start of ainvoke.  `own` is the run's input overlaid with the
\* updates its own nodes returned.
RunInit(s) ==
    [initial_state |-> s, own |-> s, scheduled |-> {EntryPoint("noma")},
     running |-> {}, finished |-> {}, step_writes |-> <<>>,
     status |-> "running", error |-> "", invoked |-> <<>>, returned |-> <<>>]

InitConcurrent ==
    /\ InitEngineIdle
    /\ InitRetrievalIdle
    /\ InitChunkerIdle
    /\ InitStoreIdle
    /\ index = {}
    /\ top_k = 1
    /\ \E h1, h2 \in {Missing, "False", "True"} :
        /\ records = [r \in RunIds |->
                        IF r = 1 THEN RequestState("first", h1)
                        ELSE RequestState("second", h2)]
        /\ runs = [r \in RunIds |-> RunInit(records[r])]

\* A scheduled node of run r starts.
StartRunNode(r, n) ==
    /\ runs[r].status = "running"
    /\ n \in runs[r].scheduled
    /\ runs' = [runs EXCEPT ![r].scheduled = @ \ {n},
                            ![r].running = @ \cup {n},
                            ![r].invoked = Append(@, n)]
    /\ UNCHANGED <<engine_vars, index, top_k, retrieval_vars, chunker_vars,
                   records, store_vars>>

\* A running node of run r returns or raises (as FinishNode, on the run's
\* record).
FinishRunNode(r, n) ==
    /\ runs[r].status = "running"
    /\ n \in runs[r].running
    /\ \E c \in Choices("noma", n, index, top_k) :
        LET run == runs[r]
            slot == RunRecord(r)
            out == NodeOutcome("noma", n, records[slot], c, top_k)
            fin == run.finished \cup {n}
            ws == Append(run.step_writes, out.writes)
            s2 == ApplyAll(records[slot], ws)
            next == Successors("noma", fin, s2) \ {END}
        IN  IF out.raised
            THEN /\ runs' = [runs EXCEPT ![r].status = "error",
                                         ![r].error = out.error,
                                         ![r].running = {},
                                         ![r].scheduled = {}]
                 /\ UNCHANGED records
            ELSE IF run.scheduled = {} /\ run.running = {n}
            THEN /\ records' = [records EXCEPT ![slot] = s2]
                 /\ runs' = [runs EXCEPT
                        ![r].own = ApplyAll(@, ws),
                        ![r].scheduled = next,
                        ![r].running = {},
                        ![r].finished = {},
                        ![r].step_writes = <<>>,
                        ![r].returned = Append(@, n),
                        ![r].status = IF next = {} THEN "done" ELSE "running"]
            ELSE /\ runs' = [runs EXCEPT ![r].finished = fin,
                                         ![r].step_writes = ws,
                                         ![r].running = @ \ {n},
                                         ![r].returned = Append(@, n)]
                 /\ UNCHANGED records
    /\ UNCHANGED <<engine_vars, index, top_k, retrieval_vars, chunker_vars,
                   store_vars>>

NextConcurrent ==
    \E r \in RunIds, n \in AllNodes : StartRunNode(r, n) \/ FinishRunNode(r, n)

SpecConcurrent == InitConcurrent /\ [][NextConcurrent]_vars

\* ------------------------------------------------ the collection and its writers
\* A markdown file is its path <<directory, stem>>; a document is its text
\* and the number of chunks _chunk_document cuts it into (at least one).
MaxFiles == 2
MaxDocChunks == 2

Dirs == {"", "sub"}
Stems == {"x", "y"}
FilePaths == Dirs \X Stems
stem(file_path) == file_path[2]

Doc(text, n) == [text |-> text, chunks |-> n]

\* f"{file_path.stem}_{chunk_idx}"
doc_id(file_path, chunk_idx) == <<stem(file_path), chunk_idx>>

\* One appended id / document / metadata triple per chunk, in enumerate order.
Entries(file_path, doc) ==
    [i \in 1..doc.chunks |->
        [id |-> doc_id(file_path, i - 1),
         document |-> <<doc.text, i - 1>>,
         path |-> file_path,
         chunk_index |-> i - 1,
         total_chunks |-> doc.chunks]]

EntryIds(entries) == {entries[i].id : i \in 1..Len(entries)}
StoredIds(coll) == DOMAIN coll

\* collection.get(where={"path": note_path})["ids"]
ids_by_path(coll, note_path) == {i \in DOMAIN coll : coll[i].path = note_path}

\* collection.delete(ids=...): unknown ids are ignored.
collection_delete(coll, ids) == [i \in (DOMAIN coll) \ ids |-> coll[i]]

\* collection.add(ids=..., ...): an id the collection already holds keeps its
\* stored entry; of two entries of one batch with the same id the first is
\* taken.  The index either reports such an id (DuplicateIDError) and stores
\* nothing, or stores the rest silently.
FirstWithId(entries, id) ==
    entries[CHOOSE i \in 1..Len(entries) :
               /\ entries[i].id = id
               /\ \A j \in 1..(i - 1) : entries[j].id # id]

Inserted(coll, entries) ==
    [i \in (DOMAIN coll) \cup EntryIds(entries) |->
        IF i \in DOMAIN coll THEN coll[i] ELSE FirstWithId(entries, i)]

HasDuplicateIds(coll, entries) ==
    \/ EntryIds(entries) \cap DOMAIN coll # {}
    \/ Cardinality(EntryIds(entries)) < Len(entries)

collection_add(coll, entries) ==
    IF HasDuplicateIds(coll, entries)
    THEN {[raised |-> TRUE, collection |-> coll],
          [raised |-> FALSE, collection |-> Inserted(coll, entries)]}
    ELSE {[raised |-> FALSE, collection |-> Inserted(coll, entries)]}

\* index_vault: the loop over markdown_files.  A file whose parsing or
\* chunking raises is skipped before anything of it is appended.
RECURSIVE IndexLoop(_, _)
IndexLoop(markdown_files, entries) ==
    IF markdown_files = <<>> THEN entries
    ELSE LET file == Head(markdown_files)
         IN  IndexLoop(Tail(markdown_files),
                       IF file.ok
                       THEN entries \o Entries(file.path, file.doc)
                       ELSE entries)

Stats(notes, chunks) == [total_notes |-> notes, total_chunks |-> chunks]

\* The outcomes of index_vault(vault_path) on collection coll.
index_vault(vault, coll) ==
    IF ~vault.is_dir
    THEN {[raised |-> TRUE, error |-> "ValueError", stats |-> <<>>,
           added |-> <<>>, collection |-> coll]}
    ELSE IF vault.markdown_files = <<>>
    THEN {[raised |-> FALSE, error |-> "", stats |-> Stats(0, 0),
           added |-> <<>>, collection |-> coll]}
    ELSE LET entries == IndexLoop(vault.markdown_files, <<>>)
         IN  IF entries = <<>>
             THEN {[raised |-> FALSE, error |-> "", stats |-> Stats(0, 0),
                    added |-> <<>>, collection |-> coll]}
             ELSE {IF o.raised
                   THEN [raised |-> TRUE, error |-> "DuplicateIDError",
                         stats |-> <<>>, added |-> entries,
                         collection |-> o.collection]
                   ELSE [raised |-> FALSE, error |-> "",
                         stats |-> Stats(Len(vault.markdown_files), Len(entries)),
                         added |-> entries, collection |-> o.collection]
                   : o \in collection_add(coll, entries)}

\* ------------------------------------------------- index_vault called directly
Files == [path : FilePaths, ok : BOOLEAN, doc : {Doc("t", n) : n \in 1..MaxDocChunks}]

\* vault.rglob("*.md"): each file of the directory tree once.
FileLists ==
    UNION {{fs \in [1..n -> Files] :
               \A i, j \in 1..n : i # j => fs[i].path # fs[j].path}
           : n \in 0..MaxFiles}

Vaults ==
    {[is_dir |-> FALSE, markdown_files |-> <<>>]}
    \cup {[is_dir |-> TRUE, markdown_files |-> fs] : fs \in FileLists}

InitVault ==
    /\ InitEngineIdle
    /\ InitRetrievalIdle
    /\ InitChunkerIdle
    /\ InitConcurrentIdle
    /\ index = {}
    /\ top_k = 1
    /\ collection = <<>>
    /\ v_mode = "idle"
    /\ v_vault \in Vaults
    /\ v_added = <<>>
    /\ v_out = [raised |-> FALSE, error |-> "", stats |-> <<>>]
    /\ u_calls = <<>>
    /\ s_seen = <<>>

IndexVault ==
    /\ v_mode = "idle"
    /\ \E o \in index_vault(v_vault, collection) :
        /\ collection' = o.collection
        /\ v_added' = o.added
        /\ v_out' = [raised |-> o.raised, error |-> o.error, stats |-> o.stats]
    /\ v_mode' = "indexed"
    /\ UNCHANGED <<engine_vars, index, top_k, retrieval_vars, chunker_vars,
                   concurrent_vars, v_vault, u_calls, s_seen>>

NextVault == IndexVault

SpecVault == InitVault /\ [][NextVault]_vars

\* ------------------------------------ update_document called by two callers
\* update_document holds no lock and its collection calls are separate
\* operations on the shared collection: each is one step of the caller.
MaxSearches == 1
Callers == {1, 2}
NotePath == <<"", "x">>

UpdateCall(content) ==
    [pc |-> "get", content |-> content, old_ids |-> {}, raised |-> FALSE]

InitUpdate ==
    /\ InitEngineIdle
    /\ InitRetrievalIdle
    /\ InitChunkerIdle
    /\ InitConcurrentIdle
    /\ index = {}
    /\ top_k = 1
    /\ v_mode = "idle"
    /\ v_vault = [is_dir |-> FALSE, markdown_files |-> <<>>]
    /\ v_added = <<>>
    /\ v_out = [raised |-> FALSE, error |-> "", stats |-> <<>>]
    /\ \E n \in 0..MaxDocChunks :
          collection = Inserted(<<>>, Entries(NotePath, Doc("old", n)))
    /\ \E n1, n2 \in 1..MaxDocChunks :
          u_calls = [c \in Callers |->
                       IF c = 1 THEN UpdateCall(Doc("first", n1))
                       ELSE UpdateCall(Doc("second", n2))]
    /\ s_seen = <<>>

\* old_docs = self.collection.get(where={"path": note_path})
UpdateGet(c) ==
    /\ u_calls[c].pc = "get"
    /\ LET old_ids == ids_by_path(collection, NotePath)
       IN  u_calls' = [u_calls EXCEPT ![c].old_ids = old_ids,
                                      ![c].pc = IF old_ids # {} THEN "delete"
                                                ELSE "add"]
    /\ UNCHANGED <<engine_vars, index, top_k, retrieval_vars, chunker_vars,
                   concurrent_vars, collection, v_mode, v_vault, v_added, v_out,
                   s_seen>>

\* self.collection.delete(ids=old_docs["ids"])
UpdateDelete(c) ==
    /\ u_calls[c].pc = "delete"
    /\ collection' = collection_delete(collection, u_calls[c].old_ids)
    /\ u_calls' = [u_calls EXCEPT ![c].pc = "add"]
    /\ UNCHANGED <<engine_vars, index, top_k, retrieval_vars, chunker_vars,
                   concurrent_vars, v_mode, v_vault, v_added, v_out, s_seen>>

\* chunks = self._chunk_document(content) ... self.collection.add(...)
UpdateAdd(c) ==
    /\ u_calls[c].pc = "add"
    /\ \E o \in collection_add(collection, Entries(NotePath, u_calls[c].content)) :
        /\ collection' = o.collection
        /\ u_calls' = [u_calls EXCEPT ![c].pc = "done", ![c].raised = o.raised]
    /\ UNCHANGED <<engine_vars, index, top_k, retrieval_vars, chunker_vars,
                   concurrent_vars, v_mode, v_vault, v_added, v_out, s_seen>>

\* A search made while the updates run returns entries the collection holds.
SearchDuringUpdate ==
    /\ u_calls # <<>>
    /\ Len(s_seen) < MaxSearches
    /\ \E c \in Callers : u_calls[c].pc \notin {"get", "done"}
    /\ s_seen' = Append(s_seen, {collection[i] : i \in DOMAIN collection})
    /\ UNCHANGED <<engine_vars, index, top_k, retrieval_vars, chunker_vars,
                   concurrent_vars, collection, v_mode, v_vault, v_added, v_out,
                   u_calls>>

NextUpdate ==
    \/ \E c \in Callers : UpdateGet(c) \/ UpdateDelete(c) \/ UpdateAdd(c)
    \/ SearchDuringUpdate

SpecUpdate == InitUpdate /\ [][NextUpdate]_vars

\* ------------------------------------------------------------------ claims
InvokedSet == {invoked[i] : i \in 1..Len(invoked)}
ReturnedSet == {returned[i] : i \in 1..Len(returned)}
Position(seq, x) == CHOOSE i \in 1..Len(seq) : seq[i] = x
Branches == {"generate_title", "generate_topic_tags"}

\* C1: in the note-synthesis pipeline merge_metadata starts only after both
\* parallel branches (generate_title, generate_topic_tags) have returned, and
\* when it has started note_title and topic_tags are present in the state.
C1_MergeAfterBothBranches ==
    (pipeline = "noma" /\ "merge_metadata" \in InvokedSet) =>
        /\ Branches \subseteq ReturnedSet
        /\ state["note_title"] # Missing
        /\ state["topic_tags"].tag # "missing"

\* C1 witness: merge_metadata has started in a run whose tags branch returned
\* before its title branch although the title branch started first.
C1_Witness ==
    /\ pipeline = "noma"
    /\ "merge_metadata" \in InvokedSet
    /\ Branches \subseteq ReturnedSet
    /\ Position(returned, "generate_topic_tags") < Position(returned, "generate_title")
    /\ Position(invoked, "generate_title") < Position(invoked, "generate_topic_tags")

\* C2: if generate_title or generate_topic_tags raises, the run has ended with
\* an error and merge_metadata, fetch_resources and format_output have not
\* executed, whatever the other branch did.
C2_BranchFailureSkipsMerge ==
    (pipeline = "noma" /\ raised_node \in Branches) =>
        /\ status = "error"
        /\ error # ""
        /\ scheduled = {} /\ running = {}
        /\ InvokedSet \cap {"merge_metadata", "fetch_resources", "format_output"} = {}

\* C2 witness: generate_topic_tags raised after generate_title had returned.
C2_Witness ==
    /\ pipeline = "noma"
    /\ raised_node = "generate_topic_tags"
    /\ "generate_title" \in ReturnedSet
    /\ status = "error"

\* C3: a note-synthesis run started with has_internet = false never invokes
\* fetch_resources, and its final state holds resources = None (the key is
\* present), also when the caller passed no resources key.
C3_NoInternetResourcesNone ==
    (pipeline = "noma" /\ initial_state["has_internet"] = "False") =>
        /\ "fetch_resources" \notin InvokedSet
        /\ status = "done" => state["resources"] = NoneL

\* C3 witness: such a run, started without a resources key, reached END.
C3_Witness ==
    /\ pipeline = "noma"
    /\ initial_state["has_internet"] = "False"
    /\ initial_state["resources"] = MissingL
    /\ status = "done"
    /\ "format_output" \in ReturnedSet

\* The required inputs of the run's pipeline, as the caller passed them.
RequiredInputs ==
    IF pipeline = "noma" THEN ReflectionFields
    ELSE IF pipeline = "link" THEN {"note_path", "note_content"}
    ELSE {"note_content"}

RequiredInputMissing ==
    \E f \in RequiredInputs : initial_state[f] \in {Missing, NoneV, ""}

\* C4: in each pipeline, when a required input is missing or empty the entry
\* validation node raises ValueError, which ends the run; no other node
\* executes and no generation or index call is made.
C4_ValidationFailsFast ==
    RequiredInputMissing =>
        /\ status # "done"
        /\ InvokedSet \subseteq {EntryPoint(pipeline)}
        /\ returned = <<>>
        /\ llm_calls = 0 /\ index_calls = 0
        /\ (invoked # <<>> /\ running = {}) =>
              (status = "error" /\ error = "ValueError"
               /\ raised_node = EntryPoint(pipeline))

\* C4 witness: a linking run with a path but empty content ended in the
\* validation error.
C4_Witness ==
    /\ pipeline = "link"
    /\ initial_state["note_path"] = "a.md"
    /\ initial_state["note_content"] = ""
    /\ status = "error"
    /\ error = "ValueError"

\* C5: once a node raises (also because a generation or index call inside it
\* failed) the run has ended with that error and nothing is scheduled or
\* running any more: no node executes afterwards.
C5_FailFast ==
    /\ call_failed => raised_node # ""
    /\ raised_node # "" =>
          /\ status = "error"
          /\ error # ""
          /\ scheduled = {} /\ running = {}
          /\ raised_node \in InvokedSet
          /\ raised_node \notin ReturnedSet
    /\ status = "error" => raised_node # ""

\* C5 witness: the opposition run ended because a capability call failed in
\* its retrieval node, after the validation node had returned.
C5_Witness ==
    /\ pipeline = "opponent"
    /\ call_failed
    /\ raised_node = "retrieve_counter_evidence"
    /\ returned = <<"validate_input">>
    /\ status = "error"

Paths_(results) == {results[i].path : i \in 1..Len(results)}

\* C6: the list link retrieval returns holds no result whose path is the
\* excluded path and no two results with the same path.
C6_LinkNoExcludedNoDuplicates ==
    (r_mode = "linking" /\ ~r_out.raised) =>
        /\ \A i \in 1..Len(r_out.results) : r_out.results[i].path # r_exclude
        /\ \A i, j \in 1..Len(r_out.results) :
              i # j => r_out.results[i].path # r_out.results[j].path

\* C6 witness: the index returned the excluded path and two chunks of another
\* note, and link retrieval returned a non-empty list.
C6_Witness ==
    /\ r_mode = "linking"
    /\ ~r_out.raised
    /\ r_exclude \in Paths_(r_general.res)
    /\ \E i, j \in 1..Len(r_general.res) :
          /\ i # j
          /\ r_general.res[i].path = r_general.res[j].path
          /\ r_general.res[i].path # r_exclude
    /\ r_out.results # <<>>

\* The notes of the index that linking may suggest.
EligiblePaths == {c.path : c \in index} \ {state["note_path"]}

\* C7: given max_links = L and at least L eligible notes in the index (distinct
\* paths other than the excluded one), linking returns exactly L results.
C7_LinkingReturnsExactlyLimit ==
    (pipeline = "link" /\ status = "done"
        /\ Cardinality(EligiblePaths) >= state["max_links"]) =>
        Len(state["suggested_links"].v) = state["max_links"]

FirstAt(cat, path) ==
    CHOOSE i \in 1..Len(cat) :
        cat[i].path = path /\ \A j \in 1..(i - 1) : cat[j].path # path

\* C8: opposition retrieval merges the tag-filtered results (a) and the general
\* results (b) into a list with one entry per path: the first occurrence of the
\* path in (a) followed by (b), in the order of those first occurrences.
C8_MergeFirstOccurrence ==
    (r_mode = "opposition" /\ r_tagged.ok /\ r_general.ok) =>
        LET cat == r_tagged.res \o r_general.res
        IN  /\ Paths_(r_combined) = Paths_(cat)
            /\ \A i, j \in 1..Len(r_combined) :
                  i # j => r_combined[i].path # r_combined[j].path
            /\ \A i \in 1..Len(r_combined) :
                  r_combined[i] = cat[FirstAt(cat, r_combined[i].path)]
            /\ \A i, j \in 1..Len(r_combined) :
                  i < j => FirstAt(cat, r_combined[i].path)
                             < FirstAt(cat, r_combined[j].path)

\* C8 witness: a path occurs in (a) and, as a different entry, in (b), and the
\* merged list holds two paths.
C8_Witness ==
    /\ r_mode = "opposition"
    /\ r_tagged.ok /\ r_general.ok
    /\ \E i \in 1..Len(r_tagged.res), j \in 1..Len(r_general.res) :
          /\ r_tagged.res[i].path = r_general.res[j].path
          /\ r_tagged.res[i] # r_general.res[j]
    /\ Len(r_combined) = 2

AllNumbers(elems) == \A i \in 1..Len(elems) : elems[i].type = "int"

\* A rerank answer that is not a score array: not JSON, not an array, or an
\* array with a non-numeric element.
MalformedPayload(payload) ==
    \/ payload.kind \in {"text", "scalar", "string"}
    \/ payload.kind = "array" /\ ~AllNumbers(payload.elems)

\* C9: for every answer to the rerank prompt that is not a well-formed score
\* array, reranking does not raise and returns the candidates in the
\* pre-rerank merge order with no rerank_score attached.
C9_MalformedPayloadKeepsOrder ==
    (r_mode = "opposition" /\ r_combined # <<>> /\ MalformedPayload(r_payload)) =>
        /\ ~r_out.raised
        /\ r_reranked = r_combined

\* C10: when the parsed score array (of numbers) is shorter or longer than the
\* candidate list, reranking returns the original candidate list, unchanged
\* in content and order.
C10_LengthMismatchKeepsCandidates ==
    (r_mode = "opposition" /\ r_combined # <<>> /\ r_payload.kind = "array"
        /\ AllNumbers(r_payload.elems)
        /\ Len(r_payload.elems) # Len(r_combined)) =>
        /\ ~r_out.raised
        /\ r_reranked = r_combined

\* C11: tag retrieval, for every tag and every top_k, ends by raising
\* NotImplementedError and no other kind of error, and returns no list.
C11_TagRetrievalNotImplemented ==
    r_mode = "by_tag" =>
        /\ r_out.raised
        /\ r_out.error = "NotImplementedError"

\* The trimmed non-empty paragraphs of the chunked document.
DocParagraphs == paragraphs(c_content)

\* C12: every chunk the chunker produced has a word count <= chunk_size unless
\* it consists of one paragraph that alone exceeds chunk_size.
C12_ChunkWithinTargetSize ==
    c_mode = "chunked" =>
        \A i \in 1..Len(c_chunks) :
            \/ word_count(c_chunks[i]) <= c_size
            \/ Len(paragraphs(c_chunks[i])) = 1

\* The paragraphs of the chunks from the i-th on, each chunk other than the
\* first without its leading (overlap) paragraph.
RECURSIVE Reconstructed(_, _)
Reconstructed(chunks, i) ==
    IF i > Len(chunks) THEN <<>>
    ELSE (IF i = 1 THEN paragraphs(chunks[i]) ELSE Tail(paragraphs(chunks[i])))
            \o Reconstructed(chunks, i + 1)

\* C13: for a document with at least one paragraph, the paragraphs of the
\* chunks in chunk order, without the leading overlap paragraph of every chunk
\* but the first, are exactly the document's paragraphs in their order.
C13_ChunksReconstructParagraphs ==
    (c_mode = "chunked" /\ DocParagraphs # <<>>) =>
        Reconstructed(c_chunks, 1) = DocParagraphs

\* C13 witness: a document of three paragraphs, the first two different, was
\* cut into three chunks (two of them start with an overlap paragraph).
C13_Witness ==
    /\ c_mode = "chunked"
    /\ Len(DocParagraphs) = 3
    /\ DocParagraphs[1] # DocParagraphs[2]
    /\ Len(c_chunks) = 3

Oversized(j) == word_count(DocParagraphs[j]) > c_size

C15_NoEvidenceSkipsGeneration ==
    [][(/\ pipeline = "opponent"
        /\ "analyze_arguments" \in running
        /\ "analyze_arguments" \notin running'
        /\ OrEmpty(state["counter_evidence"]) = <<>>) =>
            /\ llm_calls' = llm_calls
            /\ status' = "running"
            /\ state'["counter_evidence"] = ListOf(<<>>)
            /\ state'["detailed_analysis"] = NoEvidenceMessage]_vars

\* C15 witness: an opposition run against the empty index reached END with
\* the fixed message; its only generation call is the summary's.
C15_Witness ==
    /\ pipeline = "opponent"
    /\ index = {}
    /\ status = "done"
    /\ state["counter_evidence"] = ListOf(<<>>)
    /\ state["detailed_analysis"] = NoEvidenceMessage
    /\ index_calls = 2
    /\ llm_calls = 1

\* C16: when a note_path is passed to the opposition pipeline, no entry of
\* counter_evidence in the final state has that path.
C16_EvidenceExcludesNotePath ==
    (pipeline = "opponent" /\ status = "done"
        /\ initial_state["note_path"] # NoneV) =>
        \A i \in 1..Len(OrEmpty(state["counter_evidence"])) :
            state["counter_evidence"].v[i].path # initial_state["note_path"]

NoDuplicates(seq) == \A i, j \in 1..Len(seq) : i # j => seq[i] # seq[j]

\* The orders in which a successful run of each pipeline may start its nodes.
DeclaredOrders ==
    IF pipeline = "noma"
    THEN {<<"validate_responses", "generate_note">> \o branches
            \o <<"merge_metadata">> \o fetch \o <<"format_output">> :
            branches \in {<<"generate_title", "generate_topic_tags">>,
                          <<"generate_topic_tags", "generate_title">>},
            fetch \in {<<>>, <<"fetch_resources">>}}
    ELSE IF pipeline = "link"
    THEN {<<"validate_input", "find_links", "format_suggestions">>}
    ELSE {<<"validate_input", "retrieve_counter_evidence", "analyze_arguments",
            "summarize_opposition">>}

\* C17: in every run of the three pipelines every node is started at most
\* once, and a run that reached END started its nodes in the declared order.
C17_AtMostOnceInDeclaredOrder ==
    /\ NoDuplicates(invoked)
    /\ status = "done" => invoked \in DeclaredOrders

\* C17 witness: a synthesis run reached END having started the tags branch
\* before the title branch.
C17_Witness ==
    /\ pipeline = "noma"
    /\ status = "done"
    /\ Position(invoked, "generate_topic_tags") < Position(invoked, "generate_title")
    /\ Len(invoked) = 6

\* C18: in opposition retrieval an empty merged set gives the empty list with
\* no rerank call; a non-empty one is reranked with exactly one generation
\* call and the result is the first top_k entries of the reranked list.
C18_RerankOnlyNonEmptyThenTruncate ==
    (r_mode = "opposition" /\ r_tagged.ok /\ r_general.ok) =>
        IF r_combined = <<>>
        THEN ~r_out.raised /\ r_out.results = <<>> /\ r_out.llm = 0
        ELSE /\ r_out.llm = 1
             /\ ~r_out.raised =>
                  /\ Len(r_out.results) <= top_k
                  /\ Len(r_out.results) = Min(top_k, Len(r_reranked))
                  /\ \A i \in 1..Len(r_out.results) :
                        r_out.results[i] = r_reranked[i]

\* C18 witness: the reranked list was longer than top_k and was cut.
C18_Witness ==
    /\ r_mode = "opposition"
    /\ ~r_out.raised
    /\ Len(r_reranked) > top_k
    /\ Len(r_out.results) = top_k
    /\ r_reranked[1] # r_combined[1]

\* C19: suggested_links never has more than max_links entries and
\* counter_evidence never more than max_evidence entries.
C19_ResultsCappedAtLimit ==
    /\ pipeline = "link" =>
          Len(OrEmpty(state["suggested_links"])) <= state["max_links"]
    /\ pipeline = "opponent" =>
          Len(OrEmpty(state["counter_evidence"])) <= state["max_evidence"]

\* C19 witness: an opposition run with max_evidence below top_k over an index
\* of at least two notes ended with exactly max_evidence entries.
C19_Witness ==
    /\ pipeline = "opponent"
    /\ status = "done"
    /\ state["max_evidence"] < top_k
    /\ Cardinality({c.path : c \in index}) >= 2
    /\ Len(OrEmpty(state["counter_evidence"])) = state["max_evidence"]

\* C20: for any interleaving of two concurrent runs of the same compiled
\* pipeline, the record each run works on holds, in every field, the run's own
\* input or the last value the run's own nodes wrote; no write of the other
\* run is visible in it.
C20_RunsKeepSeparateRecords ==
    \A r \in DOMAIN runs :
        /\ records[RunRecord(r)] = runs[r].own
        /\ \A f \in ReflectionFields \cup {"has_internet"} :
              records[RunRecord(r)][f] = runs[r].initial_state[f]

\* C20 witness: the first run reached END while the second, which got other
\* tags, is suspended inside format_output.
C20_Witness ==
    /\ DOMAIN runs = RunIds
    /\ runs[1].status = "done"
    /\ runs[2].running = {"format_output"}
    /\ records[1]["topic_tags"] # records[2]["topic_tags"]
    /\ records[1]["final_output"] # Missing
    /\ records[2]["final_output"] = Missing

\* C21: for any interleaving of two update_document calls on the same note
\* path, once both returned the collection holds exactly the chunks of one
\* of the two contents (no mixture, no leftover old chunk), and every search
\* made meanwhile returned only chunks that some caller or the old document
\* stored.
AllUpdatesReturned ==
    /\ u_calls # <<>>
    /\ \A c \in Callers : u_calls[c].pc = "done"

StoredAs(doc) == Inserted(<<>>, Entries(NotePath, doc))

WholeChunks ==
    UNION {{StoredAs(d)[i] : i \in DOMAIN StoredAs(d)}
           : d \in {u_calls[c].content : c \in Callers}
                   \cup {Doc("old", n) : n \in 1..MaxDocChunks}}

C21_UpdateIsExclusive ==
    /\ AllUpdatesReturned =>
          \E c \in Callers : collection = StoredAs(u_calls[c].content)
    /\ u_calls # <<>> =>
          \A k \in 1..Len(s_seen) : s_seen[k] \subseteq WholeChunks

\* C22: when the chunker closes a chunk because the next paragraph would
\* overflow, the chunk closed is the paragraphs collected so far, the next
\* chunk starts as exactly the closed chunk's last paragraph followed by the
\* paragraph that triggered the overflow, and the running word count is that
\* carried paragraph's length plus the triggering paragraph's.
RECURSIVE LoopStates(_, _, _)
LoopStates(todo, st, chunk_size) ==
    IF todo = <<>> THEN <<st>>
    ELSE <<st>> \o LoopStates(Tail(todo), ChunkStep(st, Head(todo), chunk_size),
                              chunk_size)

DocLoopStates == LoopStates(DocParagraphs, LoopState(<<>>, <<>>, 0), c_size)

ClosesAt(i) ==
    Len(DocLoopStates[i + 1].chunks) > Len(DocLoopStates[i].chunks)

C22_ReseedFromClosedChunk ==
    c_mode = "chunked" =>
        \A i \in 1..Len(DocParagraphs) :
            LET before == DocLoopStates[i]
                after == DocLoopStates[i + 1]
                carried == before.current_chunk[Len(before.current_chunk)]
            IN  ClosesAt(i) =>
                    /\ after.chunks = Append(before.chunks, join(before.current_chunk))
                    /\ after.current_chunk = <<carried, DocParagraphs[i]>>
                    /\ after.current_length =
                          word_count(carried) + word_count(DocParagraphs[i])
                    /\ Len(c_chunks) > Len(after.chunks)
                    /\ \E rest \in {SubSeq(c_chunks[Len(after.chunks) + 1], k,
                                           Len(c_chunks[Len(after.chunks) + 1]))
                                    : k \in 1..(Len(c_chunks[Len(after.chunks) + 1]) + 1)} :
                          c_chunks[Len(after.chunks) + 1] =
                              join(<<carried, DocParagraphs[i]>>) \o rest

\* A document of three paragraphs whose second and third each close a chunk:
\* the second closure depends on the restarted count.
C22_Witness ==
    /\ c_mode = "chunked"
    /\ Len(DocParagraphs) = 3
    /\ ClosesAt(2)
    /\ ClosesAt(3)
    /\ Len(c_chunks) = 3

\* C23: when the rerank answer is an array of numbers as long as the
\* candidate list, reranking returns every candidate once, each carrying the
\* score at its input position as rerank_score, in descending score order,
\* candidates of equal score in their input order.
ValidScores ==
    /\ r_payload.kind = "array"
    /\ AllNumbers(r_payload.elems)
    /\ Len(r_payload.elems) = Len(r_combined)

Orderings(n) ==
    {f \in [1..n -> 1..n] : \A i, j \in 1..n : i # j => f[i] # f[j]}

C23_RerankSortsStably ==
    (r_mode = "opposition" /\ r_combined # <<>> /\ ValidScores) =>
        /\ ~r_out.raised
        /\ Len(r_reranked) = Len(r_combined)
        /\ \E f \in Orderings(Len(r_combined)) :
            /\ \A i \in 1..Len(r_combined) :
                  r_reranked[i] = Scored(r_combined[f[i]], r_payload.elems[f[i]])
            /\ \A i, j \in 1..Len(r_combined) :
                  i < j =>
                    \/ r_payload.elems[f[i]].val > r_payload.elems[f[j]].val
                    \/ /\ r_payload.elems[f[i]].val = r_payload.elems[f[j]].val
                       /\ f[i] < f[j]

\* C23 witness: two candidates given equal scores, kept in input order.
C23_Witness ==
    /\ r_mode = "opposition"
    /\ Len(r_combined) = 2
    /\ ValidScores
    /\ r_payload.elems[1] = r_payload.elems[2]
    /\ ~r_out.raised
    /\ r_reranked[1].path = r_combined[1].path
    /\ r_reranked[1].chunk_index = r_combined[1].chunk_index
    /\ r_reranked[1] # r_reranked[2]

\* C24: a note-synthesis run with has_internet = true, valid inputs and no
\* failing generation call runs fetch_resources exactly once, after
\* merge_metadata and before format_output, reaches END, and its final state
\* holds resources as a list of {title, url, reason} records.
C24_FetchResourcesYieldsRecords ==
    (/\ pipeline = "noma"
     /\ initial_state["has_internet"] = "True"
     /\ ~required_fields_missing(initial_state)
     /\ ~call_failed
     /\ status # "running") =>
        /\ status = "done"
        /\ Cardinality({i \in 1..Len(invoked) : invoked[i] = "fetch_resources"}) = 1
        /\ Position(returned, "merge_metadata") < Position(invoked, "fetch_resources")
        /\ Position(returned, "fetch_resources") < Position(invoked, "format_output")
        /\ state["resources"].tag = "list"

\* C25: every run of each pipeline terminates: it reaches END (status
\* "done") or aborts with an error; no run stays forever between nodes or at
\* the join.
C25_RunTerminates == <>(status \in {"done", "error"})

\* C25 witness: an opposition run that went through its four nodes to END.
C25_Witness ==
    /\ pipeline = "opponent"
    /\ status = "done"
    /\ returned = <<"validate_input", "retrieve_counter_evidence",
                    "analyze_arguments", "summarize_opposition">>
    /\ scheduled = {}
    /\ running = {}

\* C26: the score a result carries through a pipeline is the similarity the
\* index reported for it unless a rerank score replaced it: every suggested
\* link's score is a reported similarity, and every counter_evidence score is
\* the rerank score when reranking attached one and a reported similarity
\* otherwise.
ReportedSimilarities == 1..Cardinality(index)

C26_ScoreIsSimilarityOrRerank ==
    /\ pipeline = "link" =>
          \A i \in 1..Len(OrEmpty(state["suggested_links"])) :
              state["suggested_links"].v[i].score \in ReportedSimilarities
    /\ pipeline = "opponent" =>
          \A i \in 1..Len(OrEmpty(state["counter_evidence"])) :
              LET score == state["counter_evidence"].v[i].score
              IN  \/ score \in Elems
                  \/ score.type = "float" /\ score.val \in ReportedSimilarities

\* C27: generate_topic_tags stores each generated tag with only the exact
\* prefix '#t/' removed, and a tag that does not begin with '#t/' unchanged.
TagPrefix == <<"#", "t", "/">>

WithoutTagPrefix(tag) ==
    IF Len(tag) >= Len(TagPrefix) /\ SubSeq(tag, 1, Len(TagPrefix)) = TagPrefix
    THEN SubSeq(tag, Len(TagPrefix) + 1, Len(tag))
    ELSE tag

C27_OnlyTagPrefixRemoved ==
    (pipeline = "noma" /\ "generate_topic_tags" \in ReturnedSet) =>
        \A i \in 1..Len(OrEmpty(state["topic_tags"])) :
            state["topic_tags"].v[i] \in {WithoutTagPrefix(t) : t \in GeneratedTags}

\* C28: when index_vault returns, total_notes is the number of notes whose
\* chunks were added to the collection and total_chunks the number of chunks
\* added (a file whose processing failed counts in neither); when the vault
\* path is not a directory the call raises and the collection is unchanged.
NotesStored == {collection[i].path : i \in DOMAIN collection}

C28_StatsCountWhatWasIndexed ==
    v_mode = "indexed" =>
        /\ ~v_vault.is_dir => (v_out.raised /\ collection = <<>>)
        /\ (v_vault.is_dir /\ ~v_out.raised) =>
              /\ v_out.stats.total_notes = Cardinality(NotesStored)
              /\ v_out.stats.total_chunks = Cardinality(DOMAIN collection)

\* C30: the chunks one index_vault call hands to the collection all have
\* different ids, also for files of the same name in different directories,
\* and each chunk_index is unique within its file with
\* 0 <= chunk_index < total_chunks.
C30_ChunkIdsUnique ==
    v_mode = "indexed" =>
        /\ \A i, j \in 1..Len(v_added) :
              i # j => v_added[i].id # v_added[j].id
        /\ \A i \in 1..Len(v_added) :
              /\ 0 <= v_added[i].chunk_index
              /\ v_added[i].chunk_index < v_added[i].total_chunks
        /\ \A i, j \in 1..Len(v_added) :
              (i # j /\ v_added[i].path = v_added[j].path) =>
                  v_added[i].chunk_index # v_added[j].chunk_index

\* C29: an opposition run that retrieved no counter-evidence makes no
\* generation call at all: no rerank, no analysis call, no summary call.
C29_NoEvidenceNoGeneration ==
    (/\ pipeline = "opponent"
     /\ "retrieve_counter_evidence" \in ReturnedSet
     /\ OrEmpty(state["counter_evidence"]) = <<>>) =>
        llm_calls = 0

====
